---- MODULE Spec2Model ----
(***************************************************************************)
(* GMU Housing Gemini API (backend_gmu_housing_google.py).                 *)
(*                                                                         *)
(* The module body runs once at import (startup): it reads GEMINI_API_KEY, *)
(* configures the API client, loads listings.json into housing_data and    *)
(* creates the FastAPI application.  POST /api/chat is then handled by     *)
(* chat(), any number of calls at a time: build the prompt, call the       *)
(* completion API, json.loads the text, build the ChatResponse.            *)
(*                                                                         *)
(* Text is modelled as a sequence of lexical tokens.  A scalar or an       *)
(* object literal is one token; the punctuation of arrays and of the       *)
(* one-key wrapper object is spelled out, so parsing and serialising are   *)
(* real conversions between token sequences and values.                    *)
(***************************************************************************)
EXTENDS Integers, Sequences, FiniteSets, TLC

\* ------------------------------------------------------------- bounds
\* Longest JSON array the completion API returns in the model.
MaxRecs == 4
\* Number of chat requests that may be in flight at the same time.
NumReqs == 2

Reqs == 1..NumReqs

\* ------------------------------------------------------------- tokens
\* Scalar literals as they are spelled in JSON text.
IntLits == {"1200", "950", "1", "2", "5"}
StrLits == {"\"Aspen Heights\"", "\"Vue on 29\"", "\"123 Main\"", "\"9 Oak\"",
            "\"fits budget\"", "\"near campus\"", "\"cheap\"", "\"1200\"",
            "\"hi\"", "\"http://x\""}
NullLit == "null"
\* Member names of the one-key wrapper objects.
KeyLits == {"\"listings\"", "\"recommendations\"", "\"homes\""}

\* Object literals of the completion text, one token each.
RecObjs == {"R1", "R2", "Rextra", "Rcoerce", "Rmiss", "Rbad"}
\* Object literals of the listings file.
ListingObjs == {"L1", "L2"}

\* The members of an object literal: field name -> scalar literal.
ObjFields(tok) ==
    CASE tok = "R1" ->
           [title |-> "\"Aspen Heights\"", price |-> "1200", bedrooms |-> "2",
            bathrooms |-> "1", address |-> "\"123 Main\"", reason |-> "\"fits budget\""]
      [] tok = "R2" ->
           [title |-> "\"Vue on 29\"", price |-> "950", bedrooms |-> "1",
            bathrooms |-> "1", address |-> "\"9 Oak\"", reason |-> "\"near campus\""]
      [] tok = "Rextra" ->
           [title |-> "\"Vue on 29\"", price |-> "950", bedrooms |-> "1",
            bathrooms |-> "1", address |-> "\"9 Oak\"", reason |-> "\"near campus\"",
            url |-> "\"http://x\""]
      [] tok = "Rcoerce" ->
           [title |-> "\"Aspen Heights\"", price |-> "\"1200\"", bedrooms |-> "2",
            bathrooms |-> "1", address |-> "\"123 Main\"", reason |-> "\"fits budget\""]
      [] tok = "Rmiss" ->
           [title |-> "\"Aspen Heights\"", price |-> "1200", bedrooms |-> "2",
            bathrooms |-> "1", address |-> "\"123 Main\""]
      [] tok = "Rbad" ->
           [title |-> "\"Aspen Heights\"", price |-> "\"cheap\"", bedrooms |-> "2",
            bathrooms |-> "1", address |-> "\"123 Main\"", reason |-> "\"fits budget\""]
      [] tok = "L1" ->
           [title |-> "\"Aspen Heights\"", price |-> "1200"]
      [] tok = "L2" ->
           [title |-> "\"Vue on 29\"", price |-> "950"]

\* Every token that is a complete JSON value on its own.
Literals == IntLits \cup StrLits \cup {NullLit} \cup RecObjs \cup ListingObjs

\* ------------------------------------------------------------- JSON values
\* A parsed JSON value.  kind: "int" | "str" | "null" | "dict" (object
\* literal, lit is its token) | "list" (items are the element tokens) |
\* "wrap" (a one-key dict whose value is a list: key, items) | "unset".
JVal(kind, lit, key, items) ==
    [kind |-> kind, lit |-> lit, key |-> key, items |-> items]

Unset == JVal("unset", "", "", <<>>)

LitValue(tok) ==
    IF tok \in IntLits THEN JVal("int", tok, "", <<>>)
    ELSE IF tok \in StrLits THEN JVal("str", tok, "", <<>>)
    ELSE IF tok = NullLit THEN JVal("null", tok, "", <<>>)
    ELSE JVal("dict", tok, "", <<>>)

\* text is "[" ( literal ( "," literal )* )? "]"
IsArrayText(t) ==
    /\ Len(t) >= 2
    /\ t[1] = "["
    /\ t[Len(t)] = "]"
    /\ \/ Len(t) = 2
       \/ /\ Len(t) % 2 = 1
          /\ \A i \in 2..(Len(t) - 1) :
                IF i % 2 = 0 THEN t[i] \in Literals ELSE t[i] = ","

ArrayItems(t) == [i \in 1..((Len(t) - 1) \div 2) |-> t[2 * i]]

\* text is "{" string ":" array "}"
IsWrapText(t) ==
    /\ Len(t) >= 6
    /\ t[1] = "{"
    /\ t[2] \in StrLits \cup KeyLits
    /\ t[3] = ":"
    /\ t[Len(t)] = "}"
    /\ IsArrayText(SubSeq(t, 4, Len(t) - 1))

\* json.loads / json.load: ok = FALSE stands for the JSONDecodeError.
Loads(t) ==
    IF Len(t) = 1 /\ t[1] \in Literals
      THEN [ok |-> TRUE, val |-> LitValue(t[1])]
    ELSE IF IsArrayText(t)
      THEN [ok |-> TRUE, val |-> JVal("list", "", "", ArrayItems(t))]
    ELSE IF IsWrapText(t)
      THEN [ok |-> TRUE,
            val |-> JVal("wrap", "", t[2], ArrayItems(SubSeq(t, 4, Len(t) - 1)))]
    ELSE [ok |-> FALSE, val |-> Unset]

RECURSIVE Join(_)
Join(items) ==
    IF Len(items) = 0 THEN <<>>
    ELSE IF Len(items) = 1 THEN <<items[1]>>
    ELSE <<items[1], ",">> \o Join(Tail(items))

\* json.dumps of a list of literals.
DumpsList(items) == <<"[">> \o Join(items) \o <<"]">>

DumpsWrap(key, items) == <<"{", key, ":">> \o DumpsList(items) \o <<"}">>

\* ------------------------------------------------------------- inputs
\* os.getenv("GEMINI_API_KEY"): None when unset, else the string.
NoneKey == "<None>"
ApiKeys == {NoneKey, "", "AIza-key"}

\* listings.json as found on disk.
CatalogA == DumpsWrap("\"listings\"", <<"L1">>)
CatalogB == DumpsWrap("\"listings\"", <<"L1", "L2">>)
\* Valid JSON without a "listings" member, and valid JSON that is a list.
CatalogNoKey == DumpsWrap("\"homes\"", <<"L1">>)
CatalogList == DumpsList(<<"L2">>)
\* A file cut short: not parseable.
CatalogCorrupt == SubSeq(CatalogA, 1, Len(CatalogA) - 1)

FileTexts == {CatalogA, CatalogB, CatalogNoKey, CatalogList, CatalogCorrupt}
Files == {[exists |-> FALSE, text |-> <<>>]}
           \cup {[exists |-> TRUE, text |-> t] : t \in FileTexts}

\* request.message
Messages == {"cheap 2 bed near campus", "studio under 1000"}

\* Elements the completion API puts into an array.
Elems == RecObjs \cup {"5"}

RECURSIVE SeqsUpTo(_, _)
SeqsUpTo(S, n) ==
    IF n = 0 THEN {<<>>}
    ELSE LET shorter == SeqsUpTo(S, n - 1)
         IN  shorter \cup {Append(s, e) : s \in {x \in shorter : Len(x) = n - 1}, e \in S}

\* Completion texts that are valid JSON.
ArrayTexts == {DumpsList(items) : items \in SeqsUpTo(Elems, MaxRecs)}
ScalarTexts == {<<"5">>, <<"\"hi\"">>, <<NullLit>>, <<"R1">>}
WrapTexts == {DumpsWrap("\"recommendations\"", items) : items \in SeqsUpTo({"R1"}, 1)}
JsonTexts == ArrayTexts \cup ScalarTexts \cup WrapTexts

\* Completion texts that are not JSON: cut short, wrapped in a markdown
\* fence, or plain prose.
CutShort(t) == SubSeq(t, 1, Len(t) - 1)
Fenced(t) == <<"~~~json">> \o t \o <<"~~~">>
BrokenTexts == {CutShort(t) : t \in JsonTexts} \cup {Fenced(t) : t \in JsonTexts}
                 \cup {<<"not json">>, <<"{", "bad json">>, <<>>}

RawTexts == JsonTexts \cup BrokenTexts

\* The completion texts used where several requests run at once.
SampleTexts ==
    { DumpsList(<<>>), DumpsList(<<"R1">>), DumpsList(<<"R2", "R1", "R2", "R1">>),
      DumpsList(<<"R1", "Rmiss">>), <<"5">>, <<"{", "bad json">> }

\* ------------------------------------------------------------- state
VARIABLES
    api_key,          \* line 14
    pcMain,           \* position of the module body (startup)
    configured,       \* genai.configure has run
    file,             \* listings.json on disk
    fileReads,        \* number of times listings.json has been opened
    housing_data,     \* line 23
    app,              \* the FastAPI application exists
    cors,             \* the CORS middleware is installed
    pc,               \* position of each chat call
    message,          \* request.message
    prompt,           \* the prompt sent to the completion API
    calls,            \* generate_content invocations of the call
    raw_response,     \* line 103
    recommendations,  \* line 106
    response          \* what the caller receives

mainVars == <<api_key, pcMain, configured, file, fileReads, housing_data, app, cors>>
reqVars == <<pc, message, prompt, calls, raw_response, recommendations, response>>
vars == <<api_key, pcMain, configured, file, fileReads, housing_data, app, cors,
          pc, message, prompt, calls, raw_response, recommendations, response>>

\* raw_response before the completion API has returned.
NotReturned == <<"<not returned>">>

\* What the caller receives: a ChatResponse (status 200) or the answer
\* of the framework to an unhandled exception (status 500, error names the exception).
NoResponse == [status |-> 0, error |-> "", reply |-> <<>>, recommendations |-> <<>>]
ChatResponse(reply, recs) ==
    [status |-> 200, error |-> "", reply |-> reply, recommendations |-> recs]
Unhandled(exc) ==
    [status |-> 500, error |-> exc, reply |-> <<>>, recommendations |-> <<>>]

IdleReqs ==
    /\ pc = [r \in Reqs |-> "idle"]
    /\ message = [r \in Reqs |-> ""]
    /\ prompt = [r \in Reqs |-> <<>>]
    /\ calls = [r \in Reqs |-> 0]
    /\ raw_response = [r \in Reqs |-> NotReturned]
    /\ recommendations = [r \in Reqs |-> Unset]
    /\ response = [r \in Reqs |-> NoResponse]

Init ==
    /\ api_key \in ApiKeys
    /\ pcMain = "check_key"
    /\ configured = FALSE
    /\ file \in Files
    /\ fileReads = 0
    /\ housing_data = Unset
    /\ app = FALSE
    /\ cors = FALSE
    /\ IdleReqs

\* ------------------------------------------------------------- startup
\* CheckKey that tests only for an unset variable (api_key is None).
CheckKey_noneOnly ==
    /\ pcMain = "check_key"
    /\ pcMain' = IF api_key = NoneKey THEN "aborted" ELSE "configure"
    /\ UNCHANGED <<api_key, configured, file, fileReads, housing_data, app, cors>>
    /\ UNCHANGED reqVars

\* lines 15-16
CheckKey ==
    /\ pcMain = "check_key"
    /\ pcMain' = IF api_key \in {NoneKey, ""} THEN "aborted" ELSE "configure"
    /\ UNCHANGED <<api_key, configured, file, fileReads, housing_data, app, cors>>
    /\ UNCHANGED reqVars

\* line 17
Configure ==
    /\ pcMain = "configure"
    /\ configured' = TRUE
    /\ pcMain' = "load"
    /\ UNCHANGED <<api_key, file, fileReads, housing_data, app, cors>>
    /\ UNCHANGED reqVars

\* LoadHousingData that goes on with an empty catalog when the file cannot
\* be read.
LoadHousingData_lenient ==
    /\ pcMain = "load"
    /\ fileReads' = fileReads + 1
    /\ housing_data' = IF file.exists /\ Loads(file.text).ok
                         THEN Loads(file.text).val
                         ELSE JVal("wrap", "", "\"listings\"", <<>>)
    /\ pcMain' = "create_app"
    /\ UNCHANGED <<api_key, configured, file, app, cors>>
    /\ UNCHANGED reqVars

\* lines 22-23: open raises when the file is missing, json.load when it
\* is not JSON; either ends the process.
LoadHousingData ==
    /\ pcMain = "load"
    /\ IF ~file.exists
         THEN /\ pcMain' = "aborted"
              /\ UNCHANGED <<fileReads, housing_data>>
         ELSE /\ fileReads' = fileReads + 1
              /\ IF Loads(file.text).ok
                   THEN /\ housing_data' = Loads(file.text).val
                        /\ pcMain' = "create_app"
                   ELSE /\ pcMain' = "aborted"
                        /\ UNCHANGED housing_data
    /\ UNCHANGED <<api_key, configured, file, app, cors>>
    /\ UNCHANGED reqVars

\* line 28
CreateApp ==
    /\ pcMain = "create_app"
    /\ app' = TRUE
    /\ pcMain' = "add_middleware"
    /\ UNCHANGED <<api_key, configured, file, fileReads, housing_data, cors>>
    /\ UNCHANGED reqVars

\* lines 30-36; the module body ends and the server takes requests.
AddMiddleware ==
    /\ pcMain = "add_middleware"
    /\ cors' = TRUE
    /\ pcMain' = "serving"
    /\ UNCHANGED <<api_key, configured, file, fileReads, housing_data, app>>
    /\ UNCHANGED reqVars

\* The environment rewrites listings.json with another catalog while the
\* server runs.
FileChanges ==
    /\ pcMain = "serving"
    /\ file.exists
    /\ \E t \in {CatalogA, CatalogB} \ {file.text} : file' = [file EXCEPT !.text = t]
    /\ UNCHANGED <<api_key, pcMain, configured, fileReads, housing_data, app, cors>>
    /\ UNCHANGED reqVars

\* ------------------------------------------------------------- pydantic
\* class Recommendation
StrFields == {"title", "address", "reason"}
IntFields == {"price", "bedrooms", "bathrooms"}
Required == StrFields \cup IntFields

\* A JSON string that spells an integer is accepted for an int field and
\* converted.
NumericStrLits == {"\"1200\""}
IntOfStr(v) == IF v = "\"1200\"" THEN "1200" ELSE v

FieldOk(f, v) ==
    IF f \in StrFields THEN v \in StrLits
    ELSE v \in IntLits \cup NumericStrLits

\* An element of the list validates as a Recommendation: it is a dict, it
\* has every field, every field has an acceptable type.
ValidItem(tok) ==
    /\ tok \in RecObjs \cup ListingObjs
    /\ Required \subseteq DOMAIN ObjFields(tok)
    /\ \A f \in Required : FieldOk(f, ObjFields(tok)[f])

\* The Recommendation built from a valid element: members that are no
\* fields are dropped, numeric strings become integers.
ToRecommendation(tok) ==
    [f \in Required |->
        IF f \in IntFields THEN IntOfStr(ObjFields(tok)[f]) ELSE ObjFields(tok)[f]]

\* ------------------------------------------------------------- replies
DigitChars == <<"0", "1", "2", "3", "4", "5", "6", "7", "8", "9">>

\* str(n) of the f-string, one token per decimal digit.
RECURSIVE Digits(_)
Digits(n) ==
    IF n < 10 THEN <<DigitChars[n + 1]>>
    ELSE Append(Digits(n \div 10), DigitChars[(n % 10) + 1])

\* line 116
FoundReply(n) ==
    <<"I found ">> \o Digits(n) \o <<" housing options matching your request.">>

\* ParseFailedReply without the raw text.
ParseFailedReply_noRaw(raw) ==
    <<"Could not parse model output.", " Raw text:\n">>

\* line 112
ParseFailedReply(raw) ==
    <<"Could not parse model output.", " Raw text:\n">> \o raw

\* ResponseOf with the list cut to the three entries the prompt asks for.
ResponseOf_top3(v) ==
    IF v.kind \in {"int", "null"} THEN Unhandled("TypeError")
    ELSE IF v.kind # "list" THEN Unhandled("ValidationError")
    ELSE IF \A i \in 1..Len(v.items) : ValidItem(v.items[i])
      THEN LET n == IF Len(v.items) > 3 THEN 3 ELSE Len(v.items)
           IN  ChatResponse(FoundReply(n), [i \in 1..n |-> ToRecommendation(v.items[i])])
      ELSE Unhandled("ValidationError")

\* lines 116-118: len(recommendations), then ChatResponse(...) validates
\* recommendations as list[Recommendation].
ResponseOf(v) ==
    IF v.kind \in {"int", "null"} THEN Unhandled("TypeError")
    ELSE IF v.kind # "list" THEN Unhandled("ValidationError")
    ELSE IF \A i \in 1..Len(v.items) : ValidItem(v.items[i])
      THEN ChatResponse(FoundReply(Len(v.items)),
                        [i \in 1..Len(v.items) |-> ToRecommendation(v.items[i])])
      ELSE Unhandled("ValidationError")

\* lines 105-118 run on their own: what chat returns for a completion text.
ChatOf(raw) ==
    IF Loads(raw).ok THEN ResponseOf(Loads(raw).val)
    ELSE ChatResponse(ParseFailedReply(raw), <<>>)

\* ------------------------------------------------------------- prompt
PromptHead == "You are an expert GMU student housing assistant. Here is the housing data:"
PromptUser == "User request:"
PromptTail == "Pick the top 3 housing options that best match the user's request. ..."

\* listings['listings'] (line 68) is defined for a dict with that member.
HasListings(listings) ==
    listings.kind = "wrap" /\ listings.key = "\"listings\""

SubscriptError(listings) ==
    IF listings.kind \in {"wrap", "dict"} THEN "KeyError" ELSE "TypeError"

\* PromptOf that also puts the number of calls in flight into the prompt.
PromptOf_counting(user_query, listings) ==
    <<PromptHead>> \o DumpsList(listings.items)
        \o <<PromptUser, user_query, PromptTail,
             ToString(Cardinality({q \in Reqs : pc[q] # "idle"}))>>

\* lines 64-89
PromptOf(user_query, listings) ==
    <<PromptHead>> \o DumpsList(listings.items) \o <<PromptUser, user_query, PromptTail>>

\* ------------------------------------------------------------- chat
\* line 102: the framework calls chat(request).
Receive(r) ==
    /\ pcMain = "serving"
    /\ pc[r] = "idle"
    /\ \E m \in Messages : message' = [message EXCEPT ![r] = m]
    /\ pc' = [pc EXCEPT ![r] = "build_prompt"]
    /\ UNCHANGED <<prompt, calls, raw_response, recommendations, response>>
    /\ UNCHANGED mainVars

\* BuildPrompt that takes the first listing out of the store once it is in
\* the prompt.
BuildPrompt_consuming(r) ==
    /\ pc[r] = "build_prompt"
    /\ IF HasListings(housing_data)
         THEN /\ prompt' = [prompt EXCEPT ![r] = PromptOf(message[r], housing_data)]
              /\ pc' = [pc EXCEPT ![r] = "generate"]
              /\ housing_data' =
                    [housing_data EXCEPT !.items = IF @ = <<>> THEN @ ELSE Tail(@)]
              /\ UNCHANGED response
         ELSE /\ response' = [response EXCEPT ![r] = Unhandled(SubscriptError(housing_data))]
              /\ pc' = [pc EXCEPT ![r] = "done"]
              /\ UNCHANGED <<prompt, housing_data>>
    /\ UNCHANGED <<message, calls, raw_response, recommendations>>
    /\ UNCHANGED <<api_key, pcMain, configured, file, fileReads, app, cors>>

\* lines 103, 64-89: ask_gemini builds the prompt from housing_data.
BuildPrompt(r) ==
    /\ pc[r] = "build_prompt"
    /\ IF HasListings(housing_data)
         THEN /\ prompt' = [prompt EXCEPT ![r] = PromptOf(message[r], housing_data)]
              /\ pc' = [pc EXCEPT ![r] = "generate"]
              /\ UNCHANGED response
         ELSE /\ response' = [response EXCEPT ![r] = Unhandled(SubscriptError(housing_data))]
              /\ pc' = [pc EXCEPT ![r] = "done"]
              /\ UNCHANGED prompt
    /\ UNCHANGED <<message, calls, raw_response, recommendations>>
    /\ UNCHANGED mainVars

\* GenerateContent that calls again after a transport error, twice at most.
GenerateContent_retry(r, texts) ==
    /\ pc[r] = "generate"
    /\ calls' = [calls EXCEPT ![r] = @ + 1]
    /\ \/ /\ \E t \in texts : raw_response' = [raw_response EXCEPT ![r] = t]
          /\ pc' = [pc EXCEPT ![r] = "parse"]
          /\ UNCHANGED response
       \/ /\ calls[r] < 2
          /\ UNCHANGED <<pc, response, raw_response>>
       \/ /\ calls[r] >= 2
          /\ response' = [response EXCEPT ![r] = Unhandled("TransportError")]
          /\ pc' = [pc EXCEPT ![r] = "done"]
          /\ UNCHANGED raw_response
    /\ UNCHANGED <<message, prompt, recommendations>>
    /\ UNCHANGED mainVars

\* lines 91-96: the call returns text, or raises; nothing catches what it
\* raises.
GenerateContent(r, texts) ==
    /\ pc[r] = "generate"
    /\ calls' = [calls EXCEPT ![r] = @ + 1]
    /\ \/ /\ \E t \in texts : raw_response' = [raw_response EXCEPT ![r] = t]
          /\ pc' = [pc EXCEPT ![r] = "parse"]
          /\ UNCHANGED response
       \/ /\ response' = [response EXCEPT ![r] = Unhandled("TransportError")]
          /\ pc' = [pc EXCEPT ![r] = "done"]
          /\ UNCHANGED raw_response
    /\ UNCHANGED <<message, prompt, recommendations>>
    /\ UNCHANGED mainVars

\* ParseResponse that also takes an empty list for a parse failure.
ParseResponse_emptyFails(r) ==
    /\ pc[r] = "parse"
    /\ IF Loads(raw_response[r]).ok /\ Loads(raw_response[r]).val.items # <<>>
         THEN /\ recommendations' =
                    [recommendations EXCEPT ![r] = Loads(raw_response[r]).val]
              /\ pc' = [pc EXCEPT ![r] = "respond"]
              /\ UNCHANGED response
         ELSE /\ recommendations' = [recommendations EXCEPT ![r] = JVal("list", "", "", <<>>)]
              /\ response' = [response EXCEPT ![r] =
                                 ChatResponse(ParseFailedReply(raw_response[r]), <<>>)]
              /\ pc' = [pc EXCEPT ![r] = "done"]
    /\ UNCHANGED <<message, prompt, calls, raw_response>>
    /\ UNCHANGED mainVars

\* lines 105-114
ParseResponse(r) ==
    /\ pc[r] = "parse"
    /\ IF Loads(raw_response[r]).ok
         THEN /\ recommendations' =
                    [recommendations EXCEPT ![r] = Loads(raw_response[r]).val]
              /\ pc' = [pc EXCEPT ![r] = "respond"]
              /\ UNCHANGED response
         ELSE /\ recommendations' = [recommendations EXCEPT ![r] = JVal("list", "", "", <<>>)]
              /\ response' = [response EXCEPT ![r] =
                                 ChatResponse(ParseFailedReply(raw_response[r]), <<>>)]
              /\ pc' = [pc EXCEPT ![r] = "done"]
    /\ UNCHANGED <<message, prompt, calls, raw_response>>
    /\ UNCHANGED mainVars

\* BuildResponse that reads a recommendations shared by all calls: it sees
\* what the highest-numbered call in flight has parsed.
BuildResponse_shared(r) ==
    /\ pc[r] = "respond"
    /\ \E q \in Reqs :
          /\ recommendations[q] # Unset
          /\ \A o \in Reqs : recommendations[o] # Unset => o <= q
          /\ response' = [response EXCEPT ![r] = ResponseOf(recommendations[q])]
    /\ pc' = [pc EXCEPT ![r] = "done"]
    /\ UNCHANGED <<message, prompt, calls, raw_response, recommendations>>
    /\ UNCHANGED mainVars

\* lines 116-118
BuildResponse(r) ==
    /\ pc[r] = "respond"
    /\ response' = [response EXCEPT ![r] = ResponseOf(recommendations[r])]
    /\ pc' = [pc EXCEPT ![r] = "done"]
    /\ UNCHANGED <<message, prompt, calls, raw_response, recommendations>>
    /\ UNCHANGED mainVars

\* The response is sent and the frame of the call is gone.
Finish(r) ==
    /\ pc[r] = "done"
    /\ pc' = [pc EXCEPT ![r] = "idle"]
    /\ message' = [message EXCEPT ![r] = ""]
    /\ prompt' = [prompt EXCEPT ![r] = <<>>]
    /\ calls' = [calls EXCEPT ![r] = 0]
    /\ raw_response' = [raw_response EXCEPT ![r] = NotReturned]
    /\ recommendations' = [recommendations EXCEPT ![r] = Unset]
    /\ response' = [response EXCEPT ![r] = NoResponse]
    /\ UNCHANGED mainVars

\* ------------------------------------------------------------- specifications
\* The whole process: startup, then chat calls in any interleaving.
Next ==
    \/ CheckKey
    \/ Configure
    \/ LoadHousingData
    \/ CreateApp
    \/ AddMiddleware
    \/ FileChanges
    \/ \E r \in Reqs : Receive(r)
    \/ \E r \in Reqs : BuildPrompt(r)
    \/ \E r \in Reqs : GenerateContent(r, SampleTexts)
    \/ \E r \in Reqs : ParseResponse(r)
    \/ \E r \in Reqs : BuildResponse(r)
    \/ \E r \in Reqs : Finish(r)

Spec == Init /\ [][Next]_vars

\* One chat call at a time on a started server, over every completion text.
InitChat ==
    /\ api_key = "AIza-key"
    /\ pcMain = "serving"
    /\ configured = TRUE
    /\ file \in {[exists |-> TRUE, text |-> t] : t \in {CatalogA, CatalogNoKey}}
    /\ fileReads = 1
    /\ housing_data = Loads(file.text).val
    /\ app = TRUE
    /\ cors = TRUE
    /\ IdleReqs

NextChat ==
    \/ Receive(1)
    \/ BuildPrompt(1)
    \/ GenerateContent(1, RawTexts)
    \/ ParseResponse(1)
    \/ BuildResponse(1)
    \/ Finish(1)

SpecChat == InitChat /\ [][NextChat]_vars

\* ------------------------------------------------------------- properties
\* The completion API has returned a text to call r and the call has ended.
Ended(r) == pc[r] = "done" /\ raw_response[r] # NotReturned

\* The Recommendation an object literal stands for, member by member.
ExpectedRec(tok) ==
    IF tok \in {"R1", "Rcoerce"}
      THEN [title |-> "\"Aspen Heights\"", price |-> "1200", bedrooms |-> "2",
            bathrooms |-> "1", address |-> "\"123 Main\"", reason |-> "\"fits budget\""]
      ELSE [title |-> "\"Vue on 29\"", price |-> "950", bedrooms |-> "1",
            bathrooms |-> "1", address |-> "\"9 Oak\"", reason |-> "\"near campus\""]

\* Object literals that have the shape of a Recommendation.
Shaped == {"R1", "R2", "Rextra", "Rcoerce"}
\* The texts of the JSON arrays of such objects, and the elements of one.
ShapedTexts == {DumpsList(items) : items \in SeqsUpTo(Shaped, MaxRecs)}
ElementsOf(t) == [i \in 1..((Len(t) - 1) \div 2) |-> t[2 * i]]

CountReply(n) ==
    <<"I found ", ToString(n), " housing options matching your request.">>

IsFallback(resp) ==
    /\ resp.status = 200
    /\ resp.recommendations = <<>>
    /\ Len(resp.reply) >= 1
    /\ resp.reply[1] = "Could not parse model output."

IsSuccess(resp) ==
    /\ resp.status = 200
    /\ resp.reply = CountReply(Len(resp.recommendations))

EndsWith(s, t) ==
    /\ Len(s) >= Len(t)
    /\ SubSeq(s, Len(s) - Len(t) + 1, Len(s)) = t

\* C1: when the completion text is a JSON array of N Recommendation-shaped
\* objects, chat returns a ChatResponse with exactly those N recommendations
\* in the order of the array and the reply "I found N housing options
\* matching your request."; N may be 0 and may exceed 3.
C1_ArrayOfN ==
    \A r \in Reqs :
        (Ended(r) /\ raw_response[r] \in ShapedTexts) =>
            LET items == ElementsOf(raw_response[r])
            IN  /\ response[r].status = 200
                /\ Len(response[r].recommendations) = Len(items)
                /\ \A i \in 1..Len(items) :
                      response[r].recommendations[i] = ExpectedRec(items[i])
                /\ response[r].reply = CountReply(Len(items))

C1_Witness ==
    \E r \in Reqs :
        /\ Ended(r)
        /\ raw_response[r] = DumpsList(<<"R2", "R1", "Rextra", "R1">>)
        /\ Len(response[r].recommendations) = 4

\* C2: when the completion text is not valid JSON, chat returns a
\* ChatResponse with no recommendations and a reply that begins with
\* "Could not parse model output." and ends with the raw text, unmodified.
C2_NotJsonFallsBack ==
    \A r \in Reqs :
        (Ended(r) /\ raw_response[r] \notin JsonTexts) =>
            /\ IsFallback(response[r])
            /\ Len(response[r].reply) > Len(raw_response[r])
            /\ EndsWith(response[r].reply, raw_response[r])

C2_Witness ==
    \E r \in Reqs :
        /\ Ended(r)
        /\ raw_response[r] = <<"{", "bad json">>
        /\ IsFallback(response[r])

\* C3: for every text the completion API returns, chat ends with a
\* ChatResponse (HTTP 200); valid JSON that is no array of
\* Recommendation-shaped objects yields the parse-failure response.
C3_NeverFails ==
    \A r \in Reqs :
        Ended(r) =>
            /\ response[r].status = 200
            /\ (raw_response[r] \notin ShapedTexts) => IsFallback(response[r])

\* C10: a ChatResponse has the success form or the fallback form, never
\* both; it has the fallback form exactly when the completion text is not
\* valid JSON; the empty array gives the success form with N = 0.
C10_TwoForms ==
    \A r \in Reqs :
        (Ended(r) /\ response[r].status = 200) =>
            /\ IsSuccess(response[r]) # IsFallback(response[r])
            /\ IsFallback(response[r]) <=> (raw_response[r] \notin JsonTexts)
            /\ (raw_response[r] = <<"[", "]">>) =>
                  (response[r].reply = CountReply(0) /\ response[r].recommendations = <<>>)

C10_Witness ==
    \E r \in Reqs :
        /\ Ended(r)
        /\ raw_response[r] = <<"[", "]">>
        /\ IsSuccess(response[r])
        /\ ~IsFallback(response[r])

\* The listing data a prompt embeds: what stands between the head and the
\* three closing pieces.
EmbeddedData(p) == SubSeq(p, 2, Len(p) - 3)

\* The file texts json.load accepts.
ParseableFileTexts == {CatalogA, CatalogB, CatalogNoKey, CatalogList}

\* C4: request handling never modifies housing_data: once the server
\* takes requests no step changes it, whatever the messages and completion
\* outcomes, and any two prompts embed the same listing data.
C4_StoreNeverModified ==
    /\ [][pcMain = "serving" => housing_data' = housing_data]_vars
    /\ [](\A r1, r2 \in Reqs :
             (prompt[r1] # <<>> /\ prompt[r2] # <<>>) =>
                 EmbeddedData(prompt[r1]) = EmbeddedData(prompt[r2]))

C4_Witness ==
    \E r1, r2 \in Reqs :
        /\ message[r1] # message[r2]
        /\ pc[r1] = "done" /\ prompt[r1] # <<>>
        /\ pc[r2] = "generate"
        /\ EmbeddedData(prompt[r1]) = <<"[", "L1", ",", "L2", "]">>
        /\ EmbeddedData(prompt[r2]) = <<"[", "L1", ",", "L2", "]">>

\* C5: when GEMINI_API_KEY is unset or empty, startup aborts before the
\* client is configured, before listings.json is read and before the
\* application exists, and no request is ever accepted or handled.
C5_NoKeyNoServer ==
    (api_key \in {NoneKey, ""}) =>
        /\ pcMain \in {"check_key", "aborted"}
        /\ ~configured
        /\ fileReads = 0
        /\ housing_data = Unset
        /\ ~app
        /\ ~cors
        /\ \A r \in Reqs : pc[r] = "idle"

C5_Witness ==
    api_key = "" /\ pcMain = "aborted"

\* C6: when listings.json is missing or not parseable at startup the
\* application is never created and no request is handled; whenever a
\* request is being handled the store holds a catalog and the file has been
\* read exactly once; the file is never read a second time.
C6_FileRequiredReadOnce ==
    /\ (pcMain # "serving" /\ (~file.exists \/ file.text \notin ParseableFileTexts))
          => (~app /\ pcMain \notin {"create_app", "add_middleware"}
                   /\ \A r \in Reqs : pc[r] = "idle")
    /\ (\E r \in Reqs : pc[r] # "idle")
          => (app /\ fileReads = 1 /\ housing_data # Unset)
    /\ fileReads <= 1

C6_Witness ==
    /\ pcMain = "aborted"
    /\ api_key = "AIza-key"
    /\ file.exists
    /\ file.text = CatalogCorrupt
    /\ fileReads = 1
    /\ ~app

\* C7: two prompts built for the same user query are identical, whatever
\* was handled before or is handled at the same time.
C7_PromptDeterministic ==
    \A r1, r2 \in Reqs :
        (prompt[r1] # <<>> /\ prompt[r2] # <<>> /\ message[r1] = message[r2])
            => prompt[r1] = prompt[r2]

C7_Witness ==
    \E r1, r2 \in Reqs :
        /\ r1 # r2
        /\ message[r1] = message[r2]
        /\ pc[r1] = "done" /\ response[r1].status = 200
        /\ pc[r2] = "generate"
        /\ prompt[r1] = prompt[r2]

\* C8 as stated: every chat call invokes the completion API exactly once.
C8_EveryCallInvokesOnce ==
    \A r \in Reqs : pc[r] = "done" => calls[r] = 1

\* C8, amended: a chat call whose prompt could be built invokes the
\* completion API exactly once, after the prompt is built and before any
\* parsing; when that invocation raises, the call ends without retry and
\* without a ChatResponse, nothing is parsed, and housing_data is unchanged.
C8_InvokesOnceNoRetry ==
    /\ [](\A r \in Reqs :
            /\ (pc[r] \in {"idle", "build_prompt", "generate"})
                  => (calls[r] = 0 /\ recommendations[r] = Unset)
            /\ (pc[r] = "generate") => prompt[r] # <<>>
            /\ (pc[r] \in {"parse", "respond"}) => (calls[r] = 1 /\ prompt[r] # <<>>)
            /\ (pc[r] = "done" /\ prompt[r] # <<>>) => calls[r] = 1
            /\ (pc[r] = "done" /\ prompt[r] = <<>>) => calls[r] = 0
            /\ (pc[r] = "done" /\ response[r].error = "TransportError")
                  => /\ response[r] = Unhandled("TransportError")
                     /\ raw_response[r] = NotReturned
                     /\ recommendations[r] = Unset)
    /\ [][\A r \in Reqs :
            (pc[r] = "generate" /\ pc'[r] # "generate")
                => (calls'[r] = 1 /\ housing_data' = housing_data)]_vars

C8_Witness ==
    \E r \in Reqs :
        /\ pc[r] = "done"
        /\ calls[r] = 1
        /\ response[r] = Unhandled("TransportError")

\* C9: under any interleaving the prompt of a call is the one built from
\* its own message and the catalog, and its response is the one chat
\* returns for its own completion text when the call runs alone.
C9_CallsIndependent ==
    \A r \in Reqs :
        /\ prompt[r] # <<>> => prompt[r] = PromptOf(message[r], housing_data)
        /\ Ended(r) => response[r] = ChatOf(raw_response[r])

C9_Witness ==
    \E r1, r2 \in Reqs :
        /\ Ended(r1) /\ Ended(r2)
        /\ raw_response[r1] = DumpsList(<<"R1">>)
        /\ raw_response[r2] = <<"{", "bad json">>
        /\ IsSuccess(response[r1])
        /\ IsFallback(response[r2])

====
